---- MODULE Spec2Model ----
(***************************************************************************)
(* A model of mysql-test-data-provisioner.py: the menu session (AppState), *)
(* the provisioning engine (TestDataGenerator), the run ledger files under *)
(* work/ and the rollback engine (RollbackManager), run against MySQL      *)
(* databases that hold committed rows and one open transaction.            *)
(***************************************************************************)
EXTENDS Integers, Sequences, FiniteSets, TLC

VARIABLES
    state,      \* TUIApplication.state : AppState
    pc,         \* where the process is: menu loop, inside a handler, exited
    now,        \* the wall clock, in whole seconds
    db,         \* committed rows: profile's database -> table -> set of keys
    nextId,     \* AUTO_INCREMENT counter of every table
    work,       \* the ledger files under work/: path -> JSON content
    conn,       \* the operation's database connection and its transaction
    gen,        \* locals of generate_and_insert
    rb,         \* locals of rollback_run
    stmts,      \* SQL statements executed by the operation in progress
    obs,        \* observation of the operation: what it was, how it ended
    rolled,     \* ledger paths rolled back with success since last written
    nruns,      \* provisioning runs started so far
    lock,       \* the lock file and the processes that start the tool
    sink,       \* two provisioning runs that differ in their progress sink
    rowgen,     \* one call of _build_row_values: arguments and result
    listing,    \* one call of list_runs: the files under work/ and the result
    parser,     \* one call of _parse_table_block: the block and the result
    creator,    \* one run of create_missing_tables
    source,     \* one call of MySQLSchemaParser.parse: the file and the result
    chain,      \* one provisioning run of a scenario and the rollback of it
    batch       \* one key list of a ledger entry and the DELETEs for it

\* the session, its databases and its ledger
mainvars == <<state, pc, now, db, nextId, work, conn, gen, rb, stmts, obs,
              rolled, nruns>>

\* the parts of the tool studied on their own
others == <<lock, sink, rowgen, listing, parser, creator, source, chain,
            batch>>

vars == <<mainvars, others>>

\* a part that is not running
Rest == <<>>

(***************************************************************************)
(* Bounds of the model.                                                    *)
(***************************************************************************)
MaxRuns == 2
MaxClock == 1

None == "None"

(***************************************************************************)
(* The files the tool reads: config/<profile>/schema.sql as the schema     *)
(* parser returns it, and scenario/<profile>/<name>.json as the scenario   *)
(* loader returns it (a dict in declaration order).                        *)
(***************************************************************************)
Profiles == {"p1", "p2"}

ColumnInfo(n, ty, pk) == [name |-> n, type |-> ty, is_primary |-> pk]

TableInfo(n, cols, pk) == [name |-> n, columns |-> cols, primary_key |-> pk]

SchemaFile(p) ==
    IF p = "p1"
    THEN [t \in {"users", "orders", "logs", "items"} |->
            CASE t = "users" ->
                    TableInfo(t, <<ColumnInfo("id", "INT", TRUE),
                                   ColumnInfo("name", "VARCHAR(50)", FALSE)>>, "id")
              [] t = "orders" ->
                    TableInfo(t, <<ColumnInfo("id", "INT", TRUE),
                                   ColumnInfo("user_id", "INT", FALSE)>>, "id")
              [] t = "logs" ->
                    TableInfo(t, <<ColumnInfo("id", "INT", FALSE),
                                   ColumnInfo("msg", "TEXT", FALSE)>>, None)
              [] OTHER ->
                    TableInfo(t, <<ColumnInfo("id", "INT", TRUE),
                                   ColumnInfo("label", "VARCHAR(20)", FALSE)>>, "id")]
    ELSE [t \in {"users", "logs"} |->
            CASE t = "users" ->
                    TableInfo(t, <<ColumnInfo("id", "INT", TRUE),
                                   ColumnInfo("name", "VARCHAR(50)", FALSE)>>, "id")
              [] OTHER ->
                    TableInfo(t, <<ColumnInfo("id", "INT", TRUE),
                                   ColumnInfo("msg", "TEXT", FALSE)>>, "id")]

NoRelations == [c \in {} |-> <<>>]

ScenarioTable(n, cnt, rel) == [name |-> n, count |-> cnt, relations |-> rel]

ScenarioNames(p) == IF p = "p1" THEN {"s1.json"} ELSE {}

ScenarioPaths(p) == {<<p, n>> : n \in ScenarioNames(p)}

ScenarioFile(path) ==
    << ScenarioTable("users", 2, NoRelations),
       ScenarioTable("orders", 1, [c \in {"user_id"} |-> <<"users", "id">>]),
       ScenarioTable("logs", 1, NoRelations),
       ScenarioTable("ghost", 1, NoRelations),
       ScenarioTable("items", 0, NoRelations) >>

basename(path) == path[2]

splitext(name) == IF name = "s1.json" THEN "s1" ELSE name

(***************************************************************************)
(* The databases.  Every profile's database holds the tables of the        *)
(* profile's schema file; a table takes an INSERT that leaves its key out  *)
(* only when the key is AUTO_INCREMENT, which the tables with a primary    *)
(* key are.                                                                *)
(***************************************************************************)
DbTables(p) == DOMAIN SchemaFile(p)

Insertable(p, t) == t \in DbTables(p) /\ SchemaFile(p)[t].primary_key # None

InitRows(p, t) == IF p = "p2" /\ t = "users" THEN {1} ELSE {}

NoConn == [open |-> FALSE, profile |-> None, ins |-> {}, del |-> {}]

connect(p) == [open |-> TRUE, profile |-> p, ins |-> {}, del |-> {}]

\* conn.commit(): the transaction's inserts and deletes become durable
DbCommit(dbv, c) ==
    [dbv EXCEPT ![c.profile] =
        [t \in DOMAIN @ |->
            (@[t] \cup {x[2] : x \in {y \in c.ins : y[1] = t}})
                \ {x[2] : x \in {y \in c.del : y[1] = t}}]]

\* a rollback that makes the open transaction durable
DbRollback_Commits(dbv, c) == DbCommit(dbv, c)

\* conn.rollback(), or the connection closing with the transaction open
DbRollback(dbv, c) == dbv

(***************************************************************************)
(* The session: AppState and the menu handlers that set it.  An optional   *)
(* value is the empty tuple when it is None and a one-element tuple when   *)
(* it is set.  last_message is written by every handler and read only by   *)
(* draw(): the model keeps the message of the operation in progress in     *)
(* obs.last_message and not in the session.                                *)
(***************************************************************************)
AppState ==
    [current_profile |-> None, current_scenario |-> <<>>, schema |-> <<>>,
     scenario |-> <<>>, db_config |-> None]

NoGen == [run_id |-> 0, inserted_rows |-> <<>>, ti |-> 0, i |-> 0,
          current_count |-> 0, total_count |-> 0]

NoRb == [file_path |-> <<>>, todo |-> <<>>, i |-> 0]

NoObs == [op |-> None, outcome |-> None, last_message |-> "",
          committed |-> FALSE, pre |-> <<>>, path |-> <<>>]

MainInit ==
    /\ state = AppState
    /\ pc = "menu"
    /\ now = 0
    /\ db = [p \in Profiles |-> [t \in DbTables(p) |-> InitRows(p, t)]]
    /\ nextId = [p \in Profiles |->
                    [t \in DbTables(p) |-> Cardinality(InitRows(p, t)) + 1]]
    /\ work = [f \in {} |-> <<>>]
    /\ conn = NoConn
    /\ gen = NoGen
    /\ rb = NoRb
    /\ stmts = <<>>
    /\ obs = NoObs
    /\ rolled = {}
    /\ nruns = 0

Init ==
    /\ MainInit
    /\ source = Rest
    /\ chain = Rest
    /\ batch = Rest
    /\ lock = Rest
    /\ sink = Rest
    /\ rowgen = Rest
    /\ listing = Rest
    /\ parser = Rest
    /\ creator = Rest

\* load_connection_config(profile): the profile's connection settings
load_connection_config(p) == p

\* the clock moves on while the tool waits for a key at the menu
Tick ==
    /\ UNCHANGED others
    /\ pc = "menu"
    /\ now < MaxClock
    /\ now' = now + 1
    /\ UNCHANGED <<state, pc, db, nextId, work, conn, gen, rb, stmts, obs,
                   rolled, nruns>>

handle_select_profile ==
    /\ UNCHANGED others
    /\ pc = "menu"
    /\ \E selected_profile \in Profiles :
          state' = [state EXCEPT
                      !.current_profile = selected_profile,
                      !.db_config = load_connection_config(selected_profile)]
    /\ UNCHANGED <<pc, now, db, nextId, work, conn, gen, rb, stmts, obs,
                   rolled, nruns>>

handle_select_scenario ==
    /\ UNCHANGED others
    /\ pc = "menu"
    /\ IF state.current_profile = None
       THEN UNCHANGED state
       ELSE \E selected_path \in ScenarioPaths(state.current_profile) :
               state' = [state EXCEPT !.current_scenario = <<selected_path>>]
    /\ UNCHANGED <<pc, now, db, nextId, work, conn, gen, rb, stmts, obs,
                   rolled, nruns>>

\* an analysis that does not ask for a selected profile and scenario
handle_analyze_Unguarded ==
    /\ UNCHANGED others
    /\ pc = "menu"
    /\ \E p \in Profiles :
          state' = [state EXCEPT
                      !.schema = <<SchemaFile(p)>>,
                      !.scenario = <<ScenarioFile(<<p, "s1.json">>)>>]
    /\ UNCHANGED <<pc, now, db, nextId, work, conn, gen, rb, stmts, obs,
                   rolled, nruns>>

handle_analyze ==
    /\ UNCHANGED others
    /\ pc = "menu"
    /\ IF state.current_profile = None \/ state.current_scenario = <<>>
       THEN UNCHANGED state
       ELSE state' = [state EXCEPT
                        !.schema = <<SchemaFile(state.current_profile)>>,
                        !.scenario = <<ScenarioFile(state.current_scenario[1])>>]
    /\ UNCHANGED <<pc, now, db, nextId, work, conn, gen, rb, stmts, obs,
                   rolled, nruns>>

(***************************************************************************)
(* TestDataGenerator: generate_and_insert, _build_row_values and           *)
(* _save_run_log, driven by handle_generate.                               *)
(***************************************************************************)
\* inserted_rows is a dict in insertion order: a sequence of (table, keys)
Keys(inserted_rows) == [j \in 1..Len(inserted_rows) |-> inserted_rows[j].t]

\* a get that returns the keys of the first table whatever the name is
Get_FirstTable(inserted_rows, tname) ==
    IF inserted_rows = <<>> THEN <<>> ELSE inserted_rows[1].ids

\* inserted_rows.get(tname, [])
Get(inserted_rows, tname) ==
    LET S == {j \in 1..Len(inserted_rows) : inserted_rows[j].t = tname}
    IN IF S = {} THEN <<>> ELSE inserted_rows[CHOOSE j \in S : TRUE].ids

\* the rows a dict of key lists names, as (table, key) pairs
Rows(inserted_rows) ==
    UNION {{<<inserted_rows[j].t, inserted_rows[j].ids[k]>> :
                k \in 1..Len(inserted_rows[j].ids)} :
           j \in 1..Len(inserted_rows)}

\* a loop that does not skip the tables without a primary key
EligibleTable_NoKeyTest(schema, stable) ==
    /\ stable.count > 0
    /\ stable.name \in DOMAIN schema

\* the three tests of the scenario loop that `continue`
EligibleTable(schema, stable) ==
    /\ stable.count > 0
    /\ stable.name \in DOMAIN schema
    /\ schema[stable.name].primary_key # None

\* the first scenario entry at or after `from` that the loop does not skip
NextTable(schema, tables, from) ==
    LET S == {j \in from..Len(tables) : EligibleTable(schema, tables[j])}
    IN IF S = {} THEN Len(tables) + 1
       ELSE CHOOSE j \in S : \A k \in S : j <= k

RECURSIVE SumCounts(_)
SumCounts(tables) ==
    IF tables = <<>> THEN 0 ELSE Head(tables).count + SumCounts(Tail(tables))

\* the bucket the substring tests on the upper-cased type put a column in
TypeBucket(type) ==
    CASE type = "INT" -> "int"
      [] type \in {"VARCHAR(50)", "VARCHAR(20)", "TEXT"} -> "string12"
      [] type \in {"DATETIME", "TIMESTAMP"} -> "datetime"
      [] type = "DATE" -> "date"
      [] OTHER -> "string8"

\* rel.split(".") unpacks into exactly two names, or raises ValueError
SplitRaises(table_info, stable) ==
    \E j \in 1..Len(table_info.columns) :
        LET col == table_info.columns[j]
        IN /\ ~col.is_primary
           /\ col.name \in DOMAIN stable.relations
           /\ Len(stable.relations[col.name]) # 2

\* a column with a relation that gets a key of the table's own counter
ColumnValues_OwnKey(col, stable, inserted_rows) ==
    IF col.name \in DOMAIN stable.relations
    THEN {[kind |-> "key", v |-> 1 + Len(Get(inserted_rows, stable.name))]}
    ELSE {[kind |-> TypeBucket(col.type), v |-> 0]}

\* the values one column can get
ColumnValues(col, stable, inserted_rows) ==
    IF col.name \in DOMAIN stable.relations
    THEN LET parent_ids == Get(inserted_rows, stable.relations[col.name][1])
         IN IF parent_ids = <<>>
            THEN {[kind |-> "null", v |-> 0]}
            ELSE {[kind |-> "key", v |-> parent_ids[k]] :
                     k \in 1..Len(parent_ids)}
    ELSE {[kind |-> TypeBucket(col.type), v |-> 0]}

RECURSIVE RowValues(_, _, _)
RowValues(cols, stable, inserted_rows) ==
    IF cols = <<>> THEN {<<>>}
    ELSE {<<v>> \o rest :
            v \in ColumnValues(Head(cols), stable, inserted_rows),
            rest \in RowValues(Tail(cols), stable, inserted_rows)}

NotPrimary(col) == ~col.is_primary

\* _build_row_values: the (col_names, values) pairs it can return
build_row_values(table_info, stable, inserted_rows) ==
    LET cols == SelectSeq(table_info.columns, NotPrimary)
    IN {[col_names |-> [j \in 1..Len(cols) |-> cols[j].name], values |-> vals] :
           vals \in RowValues(cols, stable, inserted_rows)}

\* a loop that records only the first key of every table
AppendKey_FirstOnly(inserted_rows, pk_val) ==
    IF inserted_rows[Len(inserted_rows)].ids = <<>>
    THEN [inserted_rows EXCEPT ![Len(inserted_rows)].ids = <<pk_val>>]
    ELSE inserted_rows

\* inserted_rows[tname].append(pk_val), tname being the last key put in
AppendKey(inserted_rows, pk_val) ==
    [inserted_rows EXCEPT ![Len(inserted_rows)].ids = Append(@, pk_val)]

\* the loop's move to the next table: inserted_rows[tname] = []
EnterTable(inserted_rows, tables, ti) ==
    IF ti <= Len(tables)
    THEN Append(inserted_rows, [t |-> tables[ti].name, ids |-> <<>>])
    ELSE inserted_rows

\* a handler that commits what was inserted before the failure
generate_except_commits(dbv, c) == DbCommit(dbv, c)

\* except Exception: self.conn.rollback(); raise e
generate_except(dbv, c) == DbRollback(dbv, c)

\* the RunLogEntry as json.dump writes it
RunLogJson(run_log) ==
    [run_id |-> run_log.run_id, created_at |-> run_log.created_at,
     profile |-> run_log.profile, scenario |-> run_log.scenario,
     inserted_rows |-> run_log.inserted_rows]

\* work/{profile}_{scenario}/run_{run_id}.json
RunLogPath(run_log) ==
    <<run_log.profile, splitext(run_log.scenario), run_log.run_id>>

\* _save_run_log: open(path, "w") creates the file or replaces its content
save_run_log(w, run_log) ==
    [f \in DOMAIN w \cup {RunLogPath(run_log)} |->
        IF f = RunLogPath(run_log) THEN RunLogJson(run_log) ELSE w[f]]

GenTables == state.scenario[1]

\* handle_generate up to the first row of generate_and_insert
handle_generate ==
    /\ UNCHANGED others
    /\ pc = "menu"
    /\ IF state.schema = <<>> \/ state.scenario = <<>> \/ state.db_config = None
       THEN UNCHANGED <<pc, conn, gen, stmts, obs, nruns>>
       ELSE /\ nruns < MaxRuns
            /\ \E connected \in BOOLEAN :
                 IF connected
                 THEN LET ti == NextTable(state.schema[1], GenTables, 1)
                      IN /\ conn' = connect(state.db_config)
                         /\ gen' = [run_id |-> now,
                                    inserted_rows |-> EnterTable(<<>>, GenTables, ti),
                                    ti |-> ti, i |-> 0, current_count |-> 0,
                                    total_count |-> SumCounts(GenTables)]
                         /\ obs' = [op |-> "generate", outcome |-> None,
                                    last_message |-> "", committed |-> FALSE,
                                    pre |-> <<[db |-> db, work |-> work,
                                               nextId |-> nextId]>>,
                                    path |-> <<>>]
                         /\ pc' = "gen_loop"
                         /\ nruns' = nruns + 1
                         /\ UNCHANGED stmts
                 ELSE UNCHANGED <<pc, conn, gen, stmts, obs, nruns>>
    /\ UNCHANGED <<state, now, db, nextId, work, rb, rolled>>

\* the exception leaves generate_and_insert: the handler reports it and
\* its finally closes the connection
GenRaise(dbv) ==
    /\ db' = dbv
    /\ nextId' = obs.pre[1].nextId
    /\ conn' = NoConn
    /\ obs' = [obs EXCEPT !.outcome = "raised", !.last_message = "gen_failed"]
    /\ pc' = "gen_done"

\* one turn of the row loop: build the row, INSERT it, record lastrowid
GenInsert ==
    /\ UNCHANGED others
    /\ pc = "gen_loop"
    /\ gen.ti <= Len(GenTables)
    /\ LET stable == GenTables[gen.ti]
           tname == stable.name
           table_info == state.schema[1][tname]
       IN \E executed \in BOOLEAN :
            IF /\ executed
               /\ Insertable(conn.profile, tname)
               /\ ~SplitRaises(table_info, stable)
            THEN \E row \in build_row_values(table_info, stable, gen.inserted_rows) :
                   LET pk_val == nextId[conn.profile][tname]
                       done == gen.i + 1 = stable.count
                       ti == IF done
                             THEN NextTable(state.schema[1], GenTables, gen.ti + 1)
                             ELSE gen.ti
                       appended == AppendKey(gen.inserted_rows, pk_val)
                   IN /\ nextId' = [nextId EXCEPT ![conn.profile][tname] = @ + 1]
                      /\ conn' = [conn EXCEPT !.ins = @ \cup {<<tname, pk_val>>}]
                      /\ stmts' = Append(stmts,
                                    [kind |-> "INSERT", table |-> tname,
                                     col_names |-> row.col_names,
                                     values |-> row.values, keys |-> <<pk_val>>])
                      /\ gen' = [gen EXCEPT
                                   !.inserted_rows =
                                       IF done THEN EnterTable(appended, GenTables, ti)
                                       ELSE appended,
                                   !.ti = ti,
                                   !.i = IF done THEN 0 ELSE gen.i + 1,
                                   !.current_count = @ + 1]
                      /\ UNCHANGED <<pc, obs, db>>
            ELSE /\ GenRaise(generate_except(db, conn))
                 /\ UNCHANGED <<stmts, gen>>
    /\ UNCHANGED <<state, now, work, rb, rolled, nruns>>

\* self.conn.commit() after the last row
GenCommit ==
    /\ UNCHANGED others
    /\ pc = "gen_loop"
    /\ gen.ti > Len(GenTables)
    /\ \E committed \in BOOLEAN :
         IF committed
         THEN /\ db' = DbCommit(db, conn)
              /\ conn' = [conn EXCEPT !.ins = {}]
              /\ obs' = [obs EXCEPT !.committed = TRUE]
              /\ pc' = "gen_save"
              /\ UNCHANGED nextId
         ELSE GenRaise(generate_except(db, conn))
    /\ UNCHANGED <<state, now, work, gen, rb, stmts, rolled, nruns>>

\* the RunLogEntry generate_and_insert builds after the commit
GenRunLog ==
    [run_id |-> gen.run_id, created_at |-> now,
     profile |-> state.current_profile,
     scenario |-> IF state.current_scenario # <<>>
                  THEN basename(state.current_scenario[1]) ELSE "unknown",
     inserted_rows |-> gen.inserted_rows]

\* self._save_run_log(run_log); return run_log
GenSave ==
    /\ UNCHANGED others
    /\ pc = "gen_save"
    /\ \E written \in BOOLEAN :
         IF written
         THEN /\ work' = save_run_log(work, GenRunLog)
              /\ rolled' = rolled \ {RunLogPath(GenRunLog)}
              /\ obs' = [obs EXCEPT !.outcome = "returned",
                                    !.last_message = "gen_done",
                                    !.path = <<RunLogPath(GenRunLog)>>]
         ELSE /\ obs' = [obs EXCEPT !.outcome = "raised",
                                    !.last_message = "gen_failed"]
              /\ UNCHANGED <<work, rolled>>
    /\ conn' = NoConn
    /\ pc' = "gen_done"
    /\ UNCHANGED <<state, now, db, nextId, gen, rb, stmts, nruns>>

(***************************************************************************)
(* RollbackManager: list_runs and rollback_run, driven by handle_rollback. *)
(***************************************************************************)
BatchSize == 100

\* list_runs: the ledger files found under work/
list_runs(w) == DOMAIN w

Min(a, b) == IF a <= b THEN a ELSE b

\* chunks that leave out the keys after the last full hundred
Chunks_FullOnly(ids) ==
    [c \in 1..(Len(ids) \div BatchSize) |->
        SubSeq(ids, (c - 1) * BatchSize + 1, c * BatchSize)]

\* [ids[i:i + 100] for i in range(0, len(ids), 100)]
Chunks(ids) ==
    [c \in 1..((Len(ids) + BatchSize - 1) \div BatchSize) |->
        SubSeq(ids, (c - 1) * BatchSize + 1, Min(c * BatchSize, Len(ids)))]

\* a loop over the keys in their recorded order
Reversed_Forward(seq) == seq

\* reversed(list(inserted_rows.keys()))
Reversed(seq) == [j \in 1..Len(seq) |-> seq[Len(seq) + 1 - j]]

\* a loop that deletes from a table the schema model does not know
TableDeletes_AnyTable(schema, tname, ids) ==
    IF ids = <<>> THEN <<>>
    ELSE [c \in 1..Len(Chunks(ids)) |->
            [kind |-> "DELETE", table |-> tname,
             pk |-> IF tname \in DOMAIN schema
                    THEN schema[tname].primary_key ELSE "id",
             keys |-> Chunks(ids)[c]]]

\* the DELETE statements of one table of the entry, none when it is skipped
TableDeletes(schema, tname, ids) ==
    IF tname \notin DOMAIN schema THEN <<>>
    ELSE IF schema[tname].primary_key = None THEN <<>>
    ELSE IF ids = <<>> THEN <<>>
    ELSE [c \in 1..Len(Chunks(ids)) |->
            [kind |-> "DELETE", table |-> tname,
             pk |-> schema[tname].primary_key, keys |-> Chunks(ids)[c]]]

RECURSIVE DeletesOf(_, _, _)
DeletesOf(schema, names, inserted_rows) ==
    IF names = <<>> THEN <<>>
    ELSE TableDeletes(schema, Head(names), Get(inserted_rows, Head(names)))
            \o DeletesOf(schema, Tail(names), inserted_rows)

\* a rollback that goes through the tables in the order of the entry
DeleteStatements_Recorded(schema, inserted_rows) ==
    DeletesOf(schema, Keys(inserted_rows), inserted_rows)

\* the statements the loop of rollback_run executes, in order
DeleteStatements(schema, inserted_rows) ==
    DeletesOf(schema, Reversed(Keys(inserted_rows)), inserted_rows)

\* except Exception: conn.rollback() ...
rollback_except(dbv, c) == DbRollback(dbv, c)

\* handle_rollback up to the first DELETE of rollback_run.  connect(),
\* conn.autocommit = False and conn.cursor() come before the try block: when
\* connect() raises there is no connection; when one of the other two raises
\* (`configured` is false) the connection is open and nothing closes it
handle_rollback ==
    /\ UNCHANGED others
    /\ pc = "menu"
    /\ IF state.schema = <<>> /\ state.current_profile = None
       THEN UNCHANGED <<state, pc, conn, rb, stmts, obs>>
       ELSE LET schema == IF state.schema = <<>>
                          THEN <<SchemaFile(state.current_profile)>>
                          ELSE state.schema
            IN IF state.db_config = None /\ state.current_profile = None
               THEN /\ state' = [state EXCEPT !.schema = schema]
                    /\ UNCHANGED <<pc, conn, rb, stmts, obs>>
               ELSE LET db_config ==
                            IF state.db_config = None
                            THEN load_connection_config(state.current_profile)
                            ELSE state.db_config
                    IN /\ state' = [state EXCEPT !.schema = schema,
                                                 !.db_config = db_config]
                       /\ \/ UNCHANGED <<pc, conn, rb, stmts, obs>>
                          \/ \E file_path \in list_runs(work),
                                connected \in BOOLEAN, configured \in BOOLEAN :
                               LET data == work[file_path]
                                   started ==
                                      [op |-> "rollback", outcome |-> None,
                                       last_message |-> "", committed |-> FALSE,
                                       pre |-> <<[db |-> db, work |-> work,
                                                  nextId |-> nextId]>>,
                                       path |-> <<file_path>>]
                               IN IF connected /\ configured
                                  THEN /\ conn' = connect(db_config)
                                       /\ rb' = [file_path |-> <<file_path>>,
                                                 todo |-> DeleteStatements(
                                                     schema[1], data.inserted_rows),
                                                 i |-> 1]
                                       /\ obs' = started
                                       /\ pc' = "rb_loop"
                                       /\ UNCHANGED stmts
                                  ELSE /\ obs' = [started EXCEPT !.outcome = "raised"]
                                       /\ pc' = "rb_done"
                                       /\ conn' = IF connected
                                                  THEN connect(db_config)
                                                  ELSE conn
                                       /\ UNCHANGED <<rb, stmts>>
    /\ UNCHANGED <<now, db, nextId, work, gen, rolled, nruns>>

\* the except branch of rollback_run, then its finally: when conn.rollback()
\* returns, the failure string is returned; when it raises, the exception
\* leaves rollback_run
RbFail ==
    /\ db' = rollback_except(db, conn)
    /\ conn' = NoConn
    /\ \E rolled_back \in BOOLEAN :
         obs' = IF rolled_back
                THEN [obs EXCEPT !.outcome = "returned",
                                 !.last_message = "rollback_failed"]
                ELSE [obs EXCEPT !.outcome = "raised"]
    /\ pc' = "rb_done"
    /\ UNCHANGED rolled

\* cursor.execute(sql, ch) of one chunk
RbDelete ==
    /\ UNCHANGED others
    /\ pc = "rb_loop"
    /\ rb.i <= Len(rb.todo)
    /\ LET stmt == rb.todo[rb.i]
       IN \E executed \in BOOLEAN :
            IF executed /\ stmt.table \in DbTables(conn.profile)
            THEN /\ conn' = [conn EXCEPT !.del = @ \cup
                                {<<stmt.table, stmt.keys[k]>> : k \in
                                    {n \in 1..Len(stmt.keys) :
                                        stmt.keys[n] \in db[conn.profile][stmt.table]}}]
                 /\ stmts' = Append(stmts, stmt)
                 /\ rb' = [rb EXCEPT !.i = @ + 1]
                 /\ UNCHANGED <<db, obs, pc, rolled>>
            ELSE /\ RbFail
                 /\ UNCHANGED <<stmts, rb>>
    /\ UNCHANGED <<state, now, nextId, work, gen, nruns>>

\* a rollback that removes the ledger file it has applied
read_run_log_Consumes(w, file_path) ==
    [f \in DOMAIN w \ {file_path} |-> w[f]]

\* with open(file_path, "r") ...: json.load(f): the files under work/ after
\* rollback_run has read the entry
read_run_log(w, file_path) == w

\* conn.commit() after the last DELETE, and the success string
RbCommit ==
    /\ UNCHANGED others
    /\ pc = "rb_loop"
    /\ rb.i > Len(rb.todo)
    /\ \E committed \in BOOLEAN :
         IF committed
         THEN /\ db' = DbCommit(db, conn)
              /\ work' = read_run_log(work, rb.file_path[1])
              /\ rolled' = rolled \cup {rb.file_path[1]}
              /\ conn' = NoConn
              /\ obs' = [obs EXCEPT !.outcome = "returned",
                                    !.last_message = "rollback_done",
                                    !.committed = TRUE]
              /\ pc' = "rb_done"
         ELSE RbFail /\ UNCHANGED work
    /\ UNCHANGED <<state, now, nextId, gen, rb, stmts, nruns>>

\* an exception that left rollback_run: nothing in handle_rollback and in
\* run() catches it (handle_generate catches what generate_and_insert raises)
Uncaught == obs.op = "rollback" /\ obs.outcome = "raised"

\* back in the menu loop, or out of it with the exception
Return ==
    /\ UNCHANGED others
    /\ pc \in {"gen_done", "rb_done"}
    /\ IF Uncaught
       THEN pc' = "exited" /\ state' = AppState /\ conn' = NoConn
       ELSE pc' = "menu" /\ UNCHANGED <<state, conn>>
    /\ gen' = NoGen
    /\ rb' = NoRb
    /\ stmts' = <<>>
    /\ obs' = NoObs
    /\ UNCHANGED <<now, db, nextId, work, rolled, nruns>>

\* the process stops (killed, or quit at the menu): its memory is gone and
\* the server drops the transaction of its connection
Kill ==
    /\ UNCHANGED others
    /\ pc # "exited"
    /\ pc' = "exited"
    /\ state' = AppState
    /\ nextId' = IF obs.pre # <<>> /\ ~obs.committed
                 THEN obs.pre[1].nextId ELSE nextId
    /\ conn' = NoConn
    /\ gen' = NoGen
    /\ rb' = NoRb
    /\ stmts' = <<>>
    /\ obs' = NoObs
    /\ UNCHANGED <<now, db, work, rolled, nruns>>

\* the tool is started again
Start ==
    /\ UNCHANGED others
    /\ pc = "exited"
    /\ pc' = "menu"
    /\ UNCHANGED <<state, now, db, nextId, work, conn, gen, rb, stmts, obs,
                   rolled, nruns>>

Next ==
    \/ Tick
    \/ handle_select_profile
    \/ handle_select_scenario
    \/ handle_analyze
    \/ handle_generate
    \/ GenInsert
    \/ GenCommit
    \/ GenSave
    \/ handle_rollback
    \/ RbDelete
    \/ RbCommit
    \/ Return
    \/ Kill
    \/ Start

Spec == Init /\ [][Next]_vars

(***************************************************************************)
(* _build_row_values on its own: one call, with a relation descriptor of   *)
(* any shape.  A descriptor is the string of the scenario file, written as *)
(* a sequence of tokens of which "." is the separator rel.split(".") cuts  *)
(* at.                                                                     *)
(***************************************************************************)
MaxDescriptor == 3

Tokens == {"users", ".", "id"}

Descriptors == UNION {[1..n -> Tokens] : n \in 0..MaxDescriptor}

\* str.split("."): the parts between the separators, at least one part
RECURSIVE split(_)
split(rel) ==
    IF rel = <<>> THEN << <<>> >>
    ELSE LET rest == split(Tail(rel))
         IN IF Head(rel) = "."
            THEN << <<>> >> \o rest
            ELSE << <<Head(rel)>> \o Head(rest) >> \o Tail(rest)

\* the string a part is
PartName(part) ==
    IF part = <<>> THEN ""
    ELSE IF Len(part) = 1 THEN part[1]
    ELSE "other"

\* the relations of a scenario table, every descriptor split into its parts
SplitRelations(relations) ==
    [c \in DOMAIN relations |->
        [j \in 1..Len(split(relations[c])) |-> PartName(split(relations[c])[j])]]

OrdersTable ==
    TableInfo("orders", <<ColumnInfo("id", "INT", TRUE),
                          ColumnInfo("user_id", "INT", FALSE),
                          ColumnInfo("note", "VARCHAR(50)", FALSE)>>, "id")

\* inserted_rows of the run when the row is built
PriorKeys ==
    { <<>>,
      <<[t |-> "users", ids |-> <<>>]>>,
      <<[t |-> "users", ids |-> <<1>>]>>,
      <<[t |-> "users", ids |-> <<1, 2>>], [t |-> "orders", ids |-> <<>>]>> }

InitRow ==
    /\ MainInit
    /\ source = Rest
    /\ chain = Rest
    /\ batch = Rest
    /\ \E rel \in Descriptors, inserted_rows \in PriorKeys :
          rowgen = [table_info |-> OrdersTable,
                    relations |-> [c \in {"user_id"} |-> rel],
                    inserted_rows |-> inserted_rows,
                    result |-> Rest]
    /\ lock = Rest
    /\ sink = Rest
    /\ listing = Rest
    /\ parser = Rest
    /\ creator = Rest

\* col_names, values = self._build_row_values(table_info, stable, inserted_rows)
BuildRow ==
    /\ rowgen.result = Rest
    /\ LET stable == ScenarioTable(rowgen.table_info.name, 1,
                                   SplitRelations(rowgen.relations))
       IN IF SplitRaises(rowgen.table_info, stable)
          THEN rowgen' = [rowgen EXCEPT !.result = [raised |-> TRUE,
                                                    col_names |-> <<>>,
                                                    values |-> <<>>]]
          ELSE \E row \in build_row_values(rowgen.table_info, stable,
                                           rowgen.inserted_rows) :
                  rowgen' = [rowgen EXCEPT !.result =
                               [raised |-> FALSE, col_names |-> row.col_names,
                                values |-> row.values]]
    /\ UNCHANGED <<mainvars, lock, sink, listing, parser, creator, source, chain, batch>>

NextRow == BuildRow

SpecRow == InitRow /\ [][NextRow]_vars

(***************************************************************************)
(* C11: an unresolved or misconfigured relation never fails row synthesis. *)
(* When the table the descriptor names before its first "." has no keys    *)
(* recorded in inserted_rows, _build_row_values raises nothing and the     *)
(* column gets null.                                                       *)
(***************************************************************************)
C11_UnresolvedRelationIsNull ==
    (/\ rowgen # Rest
     /\ rowgen.result # Rest
     /\ Get(rowgen.inserted_rows,
            PartName(split(rowgen.relations["user_id"])[1])) = <<>>) =>
        /\ ~rowgen.result.raised
        /\ \A j \in 1..Len(rowgen.result.col_names) :
              rowgen.result.col_names[j] = "user_id" =>
                  rowgen.result.values[j].kind = "null"

(***************************************************************************)
(* The progress sink: two runs of generate_and_insert on the same schema   *)
(* and scenario, given the same answers by the database, that differ only  *)
(* in the progress_callback they are called with.                          *)
(***************************************************************************)
MaxCount == 2

Callbacks == {"none", "returns", "raises"}

\* the table of every row the loop inserts, in order
RECURSIVE PlanRows(_, _)
PlanRows(schema, tables) ==
    IF tables = <<>> THEN <<>>
    ELSE (IF EligibleTable(schema, Head(tables))
          THEN [k \in 1..Head(tables).count |-> Head(tables).name]
          ELSE <<>>) \o PlanRows(schema, Tail(tables))

SinkRun(callback) ==
    [callback |-> callback, status |-> "running", inserts |-> <<>>,
     calls |-> <<>>, ledger |-> <<>>]

InitSink ==
    /\ MainInit
    /\ source = Rest
    /\ chain = Rest
    /\ batch = Rest
    /\ \E a \in Callbacks, b \in Callbacks,
          n \in -1..MaxCount, m \in -1..MaxCount, g \in 0..1 :
          sink = [tables |-> <<ScenarioTable("users", n, NoRelations),
                               ScenarioTable("ghost", g, NoRelations),
                               ScenarioTable("items", m, NoRelations)>>,
                  runs |-> <<SinkRun(a), SinkRun(b)>>]
    /\ lock = Rest
    /\ rowgen = Rest
    /\ listing = Rest
    /\ parser = Rest
    /\ creator = Rest

SinkPlan == PlanRows(SchemaFile("p1"), sink.tables)

\* cursor.execute ... progress_callback(tname, current_count, total_count)
RowStep(run, tname, executed, raised, total_count) ==
    IF run.status # "running" THEN run
    ELSE IF ~executed THEN [run EXCEPT !.status = "rolled_back"]
    ELSE LET inserted == [run EXCEPT !.inserts = Append(@, tname)]
             called == [inserted EXCEPT !.calls =
                          Append(@, [tname |-> tname,
                                     current_count |-> Len(inserted.inserts),
                                     total_count |-> total_count])]
         IN IF run.callback # "none" /\ total_count > 0
            THEN IF run.callback = "raises" /\ raised
                 THEN [called EXCEPT !.status = "rolled_back"]
                 ELSE called
            ELSE inserted

\* self.conn.commit(), then the ledger entry of the rows inserted
CommitStep(run, committed) ==
    IF run.status # "running" THEN run
    ELSE IF committed
         THEN [run EXCEPT !.status = "committed", !.ledger = <<run.inserts>>]
         ELSE [run EXCEPT !.status = "rolled_back"]

Running(run) == run.status = "running"

\* the row both runs are at (runs that are still going are at the same row)
SinkAt ==
    LET going == {k \in 1..2 : Running(sink.runs[k])}
    IN Len(sink.runs[CHOOSE k \in going : TRUE].inserts) + 1

SinkRow ==
    /\ sink # Rest
    /\ \E k \in 1..2 : Running(sink.runs[k])
    /\ SinkAt <= Len(SinkPlan)
    /\ \E executed \in BOOLEAN, raised \in BOOLEAN :
          sink' = [sink EXCEPT !.runs =
                     [k \in 1..2 |->
                        RowStep(sink.runs[k], SinkPlan[SinkAt], executed, raised,
                                SumCounts(sink.tables))]]
    /\ UNCHANGED <<mainvars, lock, rowgen, listing, parser, creator, source, chain, batch>>

SinkCommit ==
    /\ sink # Rest
    /\ \E k \in 1..2 : Running(sink.runs[k])
    /\ SinkAt > Len(SinkPlan)
    /\ \E committed \in BOOLEAN :
          sink' = [sink EXCEPT !.runs =
                     [k \in 1..2 |-> CommitStep(sink.runs[k], committed)]]
    /\ UNCHANGED <<mainvars, lock, rowgen, listing, parser, creator, source, chain, batch>>

NextSink == SinkRow \/ SinkCommit

SpecSink == InitSink /\ [][NextSink]_vars

(***************************************************************************)
(* C12: the progress sink is purely observational.  Two runs given the     *)
(* same schema, scenario and database answers have, when both are over,    *)
(* executed the same INSERTs, taken the same commit-or-rollback decision   *)
(* and written the same ledger entry, whatever their sinks are and do.     *)
(***************************************************************************)
C12_SinkIsObservational ==
    (/\ sink # Rest
     /\ ~Running(sink.runs[1])
     /\ ~Running(sink.runs[2])) =>
        /\ sink.runs[1].inserts = sink.runs[2].inserts
        /\ sink.runs[1].status = sink.runs[2].status
        /\ sink.runs[1].ledger = sink.runs[2].ledger

(***************************************************************************)
(* C22: a progress sink that is supplied is called once after every        *)
(* inserted row, with the table of the row, the number of rows inserted so *)
(* far and the number of rows the run inserts when it succeeds; so         *)
(* 1 <= completed <= total in every call, and the last call of a run that  *)
(* committed has completed = total.                                        *)
(***************************************************************************)
C22_SinkCalledOncePerRow ==
    sink # Rest =>
        \A k \in 1..2 :
            LET run == sink.runs[k]
                calls == run.calls
            IN run.callback # "none" =>
                  /\ Len(calls) = Len(run.inserts)
                  /\ \A j \in 1..Len(calls) :
                        /\ calls[j].tname = run.inserts[j]
                        /\ calls[j].current_count = j
                        /\ calls[j].total_count = Len(SinkPlan)
                        /\ 1 <= calls[j].current_count
                        /\ calls[j].current_count <= calls[j].total_count
                  /\ (run.status = "committed" /\ calls # <<>>) =>
                        calls[Len(calls)].current_count
                           = calls[Len(calls)].total_count

(***************************************************************************)
(* The lock file: processes that start the tool in the same directory.     *)
(* main installs the SIGINT handler, then calls acquire_lock, which tests  *)
(* os.path.exists(LOCK_FILE) and then opens the file for writing, two      *)
(* system calls between which other processes run.  ended records how the  *)
(* last run of a process came to its end.                                  *)
(***************************************************************************)
MaxProcs == 3

Procs == 1..MaxProcs

InitLock ==
    /\ MainInit
    /\ source = Rest
    /\ chain = Rest
    /\ batch = Rest
    /\ lock = [file |-> <<>>, at |-> [p \in Procs |-> "off"],
               ended |-> [p \in Procs |-> "none"]]
    /\ sink = Rest
    /\ rowgen = Rest
    /\ listing = Rest
    /\ parser = Rest
    /\ creator = Rest

\* the process starts: signal.signal(signal.SIGINT, signal_handler)
LockStart(p) ==
    /\ lock # Rest
    /\ lock.at[p] = "off"
    /\ lock' = [lock EXCEPT !.at[p] = "started", !.ended[p] = "none"]
    /\ UNCHANGED <<mainvars, sink, rowgen, listing, parser, creator, source, chain, batch>>
\* if os.path.exists(LOCK_FILE): print(...); sys.exit(1), which main catches
\* and returns on
LockTest(p) ==
    /\ lock # Rest
    /\ lock.at[p] = "started"
    /\ lock' = IF lock.file # <<>>
               THEN [lock EXCEPT !.at[p] = "off", !.ended[p] = "held"]
               ELSE [lock EXCEPT !.at[p] = "tested"]
    /\ UNCHANGED <<mainvars, sink, rowgen, listing, parser, creator, source, chain, batch>>
\* with open(LOCK_FILE, "w") as f: f.write(str(os.getpid()))
LockWrite(p) ==
    /\ lock # Rest
    /\ lock.at[p] = "tested"
    /\ lock' = [lock EXCEPT !.file = <<p>>, !.at[p] = "running"]
    /\ UNCHANGED <<mainvars, sink, rowgen, listing, parser, creator, source, chain, batch>>
\* a release that leaves the file where it is
release_lock_Keeps(file) == file

\* release_lock(): removes the file if there is one, whoever wrote it
release_lock(file) == <<>>

\* SIGINT: signal_handler calls release_lock() and sys.exit(0).  SystemExit
\* ends the process, through the finally of main when the tool is running;
\* raised while _show_selection_menu waits in getstr, it is caught by the
\* bare except there and the tool goes on running
LockSigint(p) ==
    /\ lock # Rest
    /\ lock.at[p] \in {"started", "tested", "running"}
    /\ \E swallowed \in BOOLEAN :
          IF swallowed /\ lock.at[p] = "running"
          THEN lock' = [lock EXCEPT !.file = release_lock(@)]
          ELSE lock' = [lock EXCEPT
                          !.file = release_lock(@),
                          !.at[p] = "off",
                          !.ended[p] = IF lock.at[p] = "running"
                                       THEN "sigint" ELSE "sigint_before"]
    /\ UNCHANGED <<mainvars, sink, rowgen, listing, parser, creator, source, chain, batch>>
\* the tool ends after acquire_lock: config/ is missing, q is pressed, or
\* an exception leaves the TUI; release_lock() and return
LockExit(p) ==
    /\ lock # Rest
    /\ lock.at[p] = "running"
    /\ \E way \in {"no_config", "quit", "exception"} :
          lock' = [lock EXCEPT !.file = release_lock(@), !.at[p] = "off",
                               !.ended[p] = way]
    /\ UNCHANGED <<mainvars, sink, rowgen, listing, parser, creator, source, chain, batch>>
NextLock ==
    \E p \in Procs :
        \/ LockStart(p)
        \/ LockTest(p)
        \/ LockWrite(p)
        \/ LockSigint(p)
        \/ LockExit(p)

SpecLock == InitLock /\ [][NextLock]_vars

(***************************************************************************)
(* C16: single-instance exclusivity.  At most one process is past          *)
(* acquire_lock at a time.                                                 *)
(***************************************************************************)
C16_SingleInstance ==
    lock # Rest => Cardinality({p \in Procs : lock.at[p] = "running"}) <= 1

(***************************************************************************)
(* C31: lock ownership.  A step of a process that removes the lock file is *)
(* a step of the process that wrote it; a process that finds the lock held *)
(* and exits, or gets SIGINT before it has acquired the lock, leaves the   *)
(* file as it is.                                                          *)
(***************************************************************************)
C31_LockOwnership ==
    [][\A p \in Procs :
          (lock.at[p] # lock'.at[p] \/ lock.ended[p] # lock'.ended[p]) =>
             /\ (lock.file # <<>> /\ lock'.file = <<>>) => lock.file = <<p>>
             /\ lock.at[p] \in {"started", "tested"} /\ lock'.at[p] = "off" =>
                   lock'.file = lock.file]_vars

\* every process that has started goes on to the end of acquire_lock, and
\* every run of the tool comes to an end
FairLock ==
    \A p \in Procs :
        /\ WF_vars(LockTest(p))
        /\ WF_vars(LockWrite(p))
        /\ WF_vars(LockExit(p))

SpecLockFair == InitLock /\ [][NextLock]_vars /\ FairLock

MaxRunId == 2

WorkPaths ==
    {<<"p1_s1", "run_1.json">>, <<"p1_s1", "run_2.json">>,
     <<"p2_s1", "run_1.json">>}

FileContents ==
    {[kind |-> "truncated", run_id |-> <<>>],
     [kind |-> "array", run_id |-> <<>>]}
    \cup {[kind |-> "object", run_id |-> id] :
             id \in {<<>>} \cup {<<k>> : k \in 1..MaxRunId}}

InitList ==
    /\ MainInit
    /\ source = Rest
    /\ chain = Rest
    /\ batch = Rest
    /\ \E S \in SUBSET WorkPaths :
         \E files \in [S -> FileContents] :
            listing = [files |-> files, result |-> Rest]
    /\ lock = Rest
    /\ sink = Rest
    /\ rowgen = Rest
    /\ parser = Rest
    /\ creator = Rest

\* json.load(fp) and data.get(...) return: anything else raises inside the
\* try and the file is passed over
Loads(content) == content.kind = "object"

\* the orders os.listdir can give the files in
ScanOrders(S) ==
    {seq \in [1..Cardinality(S) -> S] :
        \A a, b \in 1..Cardinality(S) : a # b => seq[a] # seq[b]}

\* the dict appended to runs for a file
RunRecord(files, path) == [run_id |-> files[path].run_id, file_path |-> path]

\* x["run_id"] < y["run_id"] raises TypeError unless both are strings; a
\* list of one element is sorted without a comparison
SortRaises(runs) ==
    /\ Len(runs) >= 2
    /\ \E j \in 1..Len(runs) : runs[j].run_id = <<>>

\* runs.sort(key=lambda x: x["run_id"], reverse=True): descending, records
\* with equal keys in the order they had
SortReversed(runs) ==
    IF Len(runs) < 2 THEN runs
    ELSE LET order == CHOOSE seq \in ScanOrders(1..Len(runs)) :
                         \A a, b \in 1..Len(runs) :
                            a < b =>
                               \/ runs[seq[a]].run_id[1] > runs[seq[b]].run_id[1]
                               \/ /\ runs[seq[a]].run_id[1] = runs[seq[b]].run_id[1]
                                  /\ seq[a] < seq[b]
         IN [j \in 1..Len(runs) |-> runs[order[j]]]

\* runs = manager.list_runs()
ListRuns ==
    /\ listing # Rest
    /\ listing.result = Rest
    /\ LET files == listing.files
           loaded == {path \in DOMAIN files : Loads(files[path])}
       IN \E scan \in ScanOrders(loaded) :
            LET runs == [j \in 1..Len(scan) |-> RunRecord(files, scan[j])]
            IN listing' = [listing EXCEPT !.result =
                             IF SortRaises(runs)
                             THEN [raised |-> TRUE, runs |-> <<>>]
                             ELSE [raised |-> FALSE, runs |-> SortReversed(runs)]]
    /\ UNCHANGED <<mainvars, lock, sink, rowgen, parser, creator, source, chain, batch>>

NextList == ListRuns

SpecList == InitList /\ [][NextList]_vars

(***************************************************************************)
(* C18: list_runs returns one record for every ledger file that can be     *)
(* read, sorted by run identifier descending; a file that cannot be read   *)
(* or is corrupt is left out, the enumeration does not fail and no         *)
(* readable entry is dropped.                                              *)
(***************************************************************************)
C18_ListRunsComplete ==
    (listing # Rest /\ listing.result # Rest) =>
        LET files == listing.files
            runs == listing.result.runs
            readable == {path \in DOMAIN files :
                            /\ files[path].kind = "object"
                            /\ files[path].run_id # <<>>}
        IN /\ ~listing.result.raised
           /\ readable \subseteq {runs[j].file_path : j \in 1..Len(runs)}
           /\ \A a, b \in 1..Len(runs) :
                 a # b => runs[a].file_path # runs[b].file_path
           /\ \A j \in 1..Len(runs) :
                 /\ runs[j].file_path \in DOMAIN files
                 /\ files[runs[j].file_path].kind = "object"
                 /\ runs[j].run_id = files[runs[j].file_path].run_id
           /\ \A a, b \in 1..Len(runs) :
                 (a < b /\ runs[a].run_id # <<>> /\ runs[b].run_id # <<>>) =>
                     runs[a].run_id[1] >= runs[b].run_id[1]

(***************************************************************************)
(* _parse_table_block on its own: the lines of one CREATE TABLE block      *)
(* after the first.  A line is described by what the parser tests: how the *)
(* stripped line starts, the first name between backticks, and whether the *)
(* text PRIMARY KEY occurs in it (as the column's constraint, or inside a  *)
(* COMMENT or DEFAULT string).                                             *)
(***************************************************************************)
MaxLines == 3

ColumnNames == {"id", "a"}

\* a column definition, its name between backticks or bare
ColumnLine(name, quoted, mark) ==
    [starts |-> IF quoted THEN "backtick" ELSE "other", name |-> <<name>>,
     defines |-> name, mark |-> mark, parts |-> 2]

\* a PRIMARY KEY (name) line, the name between backticks or bare
KeyLine(name, quoted) ==
    [starts |-> "PRIMARY KEY", name |-> IF quoted THEN <<name>> ELSE <<>>,
     defines |-> name, mark |-> "key"]

CloseLine == [starts |-> ")", name |-> <<>>, defines |-> "", mark |-> "none"]

BlockLines ==
    {ColumnLine(n, q, m) : n \in ColumnNames, q \in BOOLEAN,
                           m \in {"none", "inline", "comment"}}
    \cup {KeyLine(n, q) : n \in ColumnNames, q \in BOOLEAN}
    \cup {CloseLine}

Blocks == UNION {[1..n -> BlockLines] : n \in 0..MaxLines}

InitParser ==
    /\ MainInit
    /\ source = Rest
    /\ chain = Rest
    /\ batch = Rest
    /\ \E lines \in Blocks :
          parser = [lines |-> lines, table |-> Rest, insert |-> Rest]
    /\ lock = Rest
    /\ sink = Rest
    /\ rowgen = Rest
    /\ listing = Rest
    /\ creator = Rest

\* "PRIMARY KEY" in line.upper()
HasKeyText(line) == line.mark \in {"inline", "comment", "key"}

\* for c in table.columns: if c.name == pk_name: c.is_primary = True
FlagColumns(columns, pk_name) ==
    [j \in 1..Len(columns) |->
        IF columns[j].name = pk_name
        THEN [columns[j] EXCEPT !.is_primary = TRUE]
        ELSE columns[j]]

\* the loop over lines[1:]
RECURSIVE parse_lines(_, _)
parse_lines(table, lines) ==
    IF lines = <<>> THEN table
    ELSE LET line == Head(lines)
         IN IF line.starts = ")" THEN table
            ELSE IF line.starts = "PRIMARY KEY"
            THEN parse_lines(
                    IF line.name # <<>>
                    THEN [table EXCEPT
                            !.primary_key = line.name[1],
                            !.columns = FlagColumns(@, line.name[1])]
                    ELSE table,
                    Tail(lines))
            ELSE IF line.starts = "backtick" /\ line.parts < 2
            THEN parse_lines(table, Tail(lines))
            ELSE IF line.starts = "backtick"
            THEN parse_lines(
                    [table EXCEPT
                       !.columns = Append(@, ColumnInfo(line.name[1], "INT",
                                                        HasKeyText(line))),
                       !.primary_key =
                            IF HasKeyText(line) /\ @ = None
                            THEN line.name[1] ELSE @],
                    Tail(lines))
            ELSE parse_lines(table, Tail(lines))

\* table_info = self._parse_table_block(block)
ParseBlock ==
    /\ parser # Rest
    /\ parser.table = Rest
    /\ parser' = [parser EXCEPT !.table =
                    parse_lines(TableInfo("t", <<>>, None), parser.lines)]
    /\ UNCHANGED <<mainvars, lock, sink, rowgen, listing, creator, source, chain, batch>>

\* the first row of the table in generate_and_insert, for a scenario entry
\* without relations: the column list and the values of its INSERT
BuildInsert ==
    /\ parser # Rest
    /\ parser.table # Rest
    /\ parser.insert = Rest
    /\ LET stable == ScenarioTable(parser.table.name, 1, NoRelations)
           schema == [n \in {parser.table.name} |-> parser.table]
       IN /\ EligibleTable(schema, stable)
          /\ \E row \in build_row_values(parser.table, stable, <<>>) :
                parser' = [parser EXCEPT !.insert = row]
    /\ UNCHANGED <<mainvars, lock, sink, rowgen, listing, creator, source,
                   chain, batch>>

NextParser == ParseBlock \/ BuildInsert

SpecParser == InitParser /\ [][NextParser]_vars

\* a block MySQL accepts: the closing line last, every column defined once,
\* at most one primary key, defined inline or by a PRIMARY KEY line that
\* names a column of the table
ValidBlock(lines) ==
    LET n == Len(lines)
        cols == {j \in 1..n : lines[j].mark \in {"none", "inline", "comment"}}
        keys == {j \in 1..n : lines[j].mark \in {"inline", "key"}}
    IN /\ n >= 2
       /\ lines[n] = CloseLine
       /\ \A j \in 1..(n - 1) : lines[j] # CloseLine
       /\ \A j, k \in cols : j # k => lines[j].defines # lines[k].defines
       /\ Cardinality(keys) <= 1
       /\ \A j \in keys : \E k \in cols : lines[k].defines = lines[j].defines

(***************************************************************************)
(* C19: a parsed table has at most one column flagged as primary key, and  *)
(* when it has a primary key name, a parsed column has that name and is    *)
(* the flagged one.  Stated for the blocks MySQL accepts.                  *)
(***************************************************************************)
C19_OnePrimaryKeyColumn ==
    (parser # Rest /\ parser.table # Rest /\ ValidBlock(parser.lines)) =>
        LET columns == parser.table.columns
            flagged == {j \in 1..Len(columns) : columns[j].is_primary}
        IN /\ Cardinality(flagged) <= 1
           /\ parser.table.primary_key # None =>
                 \E j \in flagged : columns[j].name = parser.table.primary_key

\* the members of a sequence that are not x, in order
Without(seq, x) ==
    LET Other(y) == y # x
    IN SelectSeq(seq, Other)

(***************************************************************************)
(* C24: the INSERT of a provisioned table leaves out the column named by   *)
(* the table's primary_key and lists every other parsed column once, in    *)
(* declaration order, with as many values as columns, wherever the PRIMARY *)
(* KEY declaration stands in the block.  Stated for the blocks MySQL       *)
(* accepts.                                                                *)
(***************************************************************************)
C24_InsertOmitsPrimaryKey ==
    (parser # Rest /\ parser.insert # Rest /\ ValidBlock(parser.lines)) =>
        LET columns == parser.table.columns
            names == [j \in 1..Len(columns) |-> columns[j].name]
        IN /\ parser.insert.col_names = Without(names, parser.table.primary_key)
           /\ Len(parser.insert.values) = Len(parser.insert.col_names)

(***************************************************************************)
(* SchemaCreator.create_missing_tables on its own: one run over the CREATE *)
(* TABLE statements of a schema file.  A statement is the words of its     *)
(* first line, whether the table name is between backticks, and the table  *)
(* it creates.                                                             *)
(***************************************************************************)
MaxStatements == 2

TableNames == {"users", "items"}

Statement(t, quoted, guarded) ==
    [target |-> t, quoted |-> quoted, guarded |-> guarded,
     words |-> IF guarded
               THEN <<"CREATE", "TABLE", "IF", "NOT", "EXISTS", t>>
               ELSE <<"CREATE", "TABLE", t>>]

Statements ==
    {Statement(t, q, g) : t \in TableNames, q \in BOOLEAN, g \in BOOLEAN}

SchemaFiles == UNION {[1..n -> Statements] : n \in 1..MaxStatements}

InitCreator ==
    /\ MainInit
    /\ source = Rest
    /\ chain = Rest
    /\ batch = Rest
    /\ \E create_statements \in SchemaFiles, existing_tables \in SUBSET TableNames :
          creator = [create_statements |-> create_statements,
                     existing_tables |-> existing_tables,
                     tables |-> existing_tables,
                     idx |-> 1,
                     results |-> [n \in {} |-> ""],
                     executed |-> <<>>]
    /\ lock = Rest
    /\ sink = Rest
    /\ rowgen = Rest
    /\ listing = Rest
    /\ parser = Rest

\* _extract_table_name: the name between the first backticks of the first
\* line, or else its third word
extract_table_name(statement) ==
    IF statement.quoted THEN <<statement.target>>
    ELSE IF Len(statement.words) >= 3 THEN <<statement.words[3]>>
    ELSE <<>>

\* results[table_name] = value
SetResult(results, table_name, value) ==
    [n \in DOMAIN results \cup {table_name} |->
        IF n = table_name THEN value ELSE results[n]]

\* one turn of the loop over create_statements
CreateStep ==
    /\ creator # Rest
    /\ creator.idx <= Len(creator.create_statements)
    /\ LET statement == creator.create_statements[creator.idx]
           table_name == extract_table_name(statement)
           next == [creator EXCEPT !.idx = @ + 1]
       IN IF table_name = <<>> THEN creator' = next
          ELSE IF table_name[1] \in creator.existing_tables
          THEN creator' = [next EXCEPT !.results =
                              SetResult(@, table_name[1], "already_exists")]
          ELSE \E accepted \in BOOLEAN :
                 LET exists == statement.target \in creator.tables
                     ran == [next EXCEPT !.executed =
                                Append(@, [idx |-> creator.idx,
                                           target |-> statement.target,
                                           existed |-> exists])]
                 IN IF accepted /\ (~exists \/ statement.guarded)
                    THEN creator' = [ran EXCEPT
                                       !.tables = @ \cup {statement.target},
                                       !.results = SetResult(@, table_name[1],
                                                             "created")]
                    ELSE creator' = [ran EXCEPT
                                       !.results = SetResult(@, table_name[1],
                                                             "error")]
    /\ UNCHANGED <<mainvars, lock, sink, rowgen, listing, parser, source, chain, batch>>

NextCreator == CreateStep

SpecCreator == InitCreator /\ [][NextCreator]_vars

(***************************************************************************)
(* C20: schema creation touches only missing tables.  For a schema file    *)
(* that defines every table once: no statement is executed for a table     *)
(* that exists, and when the loop is over every statement has been gone    *)
(* through and every table of the file has one of created, already_exists  *)
(* and error as its result.                                                *)
(***************************************************************************)
C20_OnlyMissingTablesCreated ==
    (/\ creator # Rest
     /\ \A j, k \in 1..Len(creator.create_statements) :
           j # k => creator.create_statements[j].target
                       # creator.create_statements[k].target) =>
        /\ \A e \in 1..Len(creator.executed) : ~creator.executed[e].existed
        /\ creator.idx > Len(creator.create_statements) =>
              \A j \in 1..Len(creator.create_statements) :
                 LET t == creator.create_statements[j].target
                 IN /\ t \in DOMAIN creator.results
                    /\ creator.results[t] \in {"created", "already_exists", "error"}

(***************************************************************************)
(* MySQLSchemaParser.parse on its own: one call over the lines of a schema *)
(* file.  The first line of a statement is described by its words, the     *)
(* name between its first backticks and the table MySQL creates from it;   *)
(* the other lines as _parse_table_block reads them.                       *)
(***************************************************************************)
MaxFileLines == 4

\* CREATE TABLE [IF NOT EXISTS] name (   with the name bare, between
\* backticks, or left out
HeaderLine(t, quoted, guarded) ==
    [starts |-> "CREATE TABLE", name |-> IF quoted THEN <<t>> ELSE <<>>,
     defines |-> t, mark |-> "none",
     words |-> <<"CREATE", "TABLE">>
                  \o (IF guarded THEN <<"IF", "NOT", "EXISTS">> ELSE <<>>)
                  \o (IF t = "" THEN <<>> ELSE <<t>>) \o <<"(">>]

\* a column line that is a name between backticks and nothing else
NameOnlyLine(name) ==
    [starts |-> "backtick", name |-> <<name>>, defines |-> name,
     mark |-> "none", parts |-> 1]

\* the line with ";" at its end
Terminated(line) == [semi |-> TRUE] @@ line

\* a comment or an empty statement between the definitions
CommentLine == [starts |-> "other", name |-> <<>>, defines |-> "", mark |-> "none"]

SourceLines ==
    {HeaderLine("users", FALSE, FALSE), HeaderLine("items", TRUE, FALSE),
     HeaderLine("users", FALSE, TRUE), HeaderLine("items", FALSE, TRUE),
     HeaderLine("", FALSE, FALSE),
     ColumnLine("id", TRUE, "none"), NameOnlyLine("a"),
     Terminated(CloseLine), CommentLine}

Sources == UNION {[1..n -> SourceLines] : n \in 0..MaxFileLines}

InitSchema ==
    /\ MainInit
    /\ \E lines \in Sources : source = [lines |-> lines, schema |-> Rest]
    /\ lock = Rest
    /\ sink = Rest
    /\ rowgen = Rest
    /\ listing = Rest
    /\ parser = Rest
    /\ creator = Rest
    /\ chain = Rest
    /\ batch = Rest

\* stripped.endswith(";")
endswith_semicolon(line) == "semi" \in DOMAIN line

\* the loop of _split_create_table_blocks over sql.splitlines()
RECURSIVE split_lines(_, _, _, _)
split_lines(lines, blocks, current, in_create) ==
    IF lines = <<>>
    THEN IF current # <<>> THEN Append(blocks, current) ELSE blocks
    ELSE LET line == Head(lines)
             starting == line.starts = "CREATE TABLE"
             flushed == IF starting /\ current # <<>>
                        THEN Append(blocks, current) ELSE blocks
             kept == IF starting THEN <<>> ELSE current
         IN IF in_create \/ starting
            THEN IF endswith_semicolon(line)
                 THEN split_lines(Tail(lines), Append(flushed, Append(kept, line)),
                                  <<>>, FALSE)
                 ELSE split_lines(Tail(lines), flushed, Append(kept, line), TRUE)
            ELSE split_lines(Tail(lines), flushed, kept, FALSE)

split_create_table_blocks(lines) == split_lines(lines, <<>>, <<>>, FALSE)

\* parts[2].strip(" (")
strip_paren(word) == IF word = "(" THEN "" ELSE word

\* the name _parse_table_block gets from the first line: what is between
\* the first two backticks, or else the third word
block_name(first) ==
    IF first.name # <<>> THEN first.name[1]
    ELSE IF Len(first.words) >= 3 THEN strip_paren(first.words[3])
    ELSE None

\* _parse_table_block: no table when there is no name
parse_table_block(block) ==
    IF block_name(Head(block)) \in {None, ""} THEN <<>>
    ELSE <<parse_lines(TableInfo(block_name(Head(block)), <<>>, None),
                       Tail(block))>>

\* schema.tables[table_info.name] = table_info
SetTable(tables, table_info) ==
    [n \in DOMAIN tables \cup {table_info.name} |->
        IF n = table_info.name THEN table_info ELSE tables[n]]

\* the loop of parse over the blocks
RECURSIVE parse_blocks(_, _)
parse_blocks(blocks, tables) ==
    IF blocks = <<>> THEN tables
    ELSE LET table_info == parse_table_block(Head(blocks))
         IN parse_blocks(Tail(blocks),
                         IF table_info = <<>> THEN tables
                         ELSE SetTable(tables, table_info[1]))

\* schema = MySQLSchemaParser(schema_file).parse()
ParseFile ==
    /\ source # Rest
    /\ source.schema = Rest
    /\ source' = [source EXCEPT !.schema =
                    [tables |-> parse_blocks(
                                   split_create_table_blocks(source.lines),
                                   [n \in {} |-> <<>>])]]
    /\ UNCHANGED <<mainvars, lock, sink, rowgen, listing, parser, creator,
                   chain, batch>>

NextSchema == ParseFile

SpecSchema == InitSchema /\ [][NextSchema]_vars

\* the statements of the file: a first line and the lines up to the next
SourceBlocks == split_create_table_blocks(source.lines)

\* the names of the columns a statement declares with a type, in order
DeclaredColumns(block) ==
    LET Typed(line) == line.starts = "backtick" /\ line.parts >= 2
        sel == SelectSeq(Tail(block), Typed)
    IN [j \in 1..Len(sel) |-> sel[j].defines]

(***************************************************************************)
(* C21: schema parsing degrades gracefully.  For a file that defines no    *)
(* table twice, parse returns a schema model in which every statement that *)
(* names its table has that table, with the columns the statement declares *)
(* with a type; a statement without a name and a column line without a     *)
(* type leave nothing in the model.                                        *)
(***************************************************************************)
C21_ParseDegradesGracefully ==
    (/\ source # Rest
     /\ source.schema # Rest
     /\ \A j, k \in 1..Len(SourceBlocks) :
           (j # k /\ Head(SourceBlocks[j]).defines # "") =>
               Head(SourceBlocks[j]).defines # Head(SourceBlocks[k]).defines) =>
        LET tables == source.schema.tables
        IN /\ \A j \in 1..Len(SourceBlocks) :
                LET t == Head(SourceBlocks[j]).defines
                IN t # "" =>
                      /\ t \in DOMAIN tables
                      /\ tables[t].name = t
                      /\ [c \in 1..Len(tables[t].columns) |->
                             tables[t].columns[c].name]
                            = DeclaredColumns(SourceBlocks[j])
           /\ \A n \in DOMAIN tables :
                \E j \in 1..Len(SourceBlocks) : Head(SourceBlocks[j]).defines = n

(***************************************************************************)
(* One provisioning run and the rollback of its ledger entry, for the      *)
(* scenarios over three tables that reference each other in any way: the   *)
(* row loop of generate_and_insert with every INSERT and the commit        *)
(* accepted, the entry as it is saved, and the DELETEs rollback_run derives*)
(* from it under the same schema.                                          *)
(***************************************************************************)
MaxRows == 2

ChainTables == {"a", "b", "c"}

ChainSchema ==
    [t \in ChainTables |->
        TableInfo(t, <<ColumnInfo("id", "INT", TRUE),
                       ColumnInfo("ref", "INT", FALSE)>>, "id")]

\* the AUTO_INCREMENT value of a table when the run starts
FirstKey(t) == CASE t = "a" -> 1 [] t = "b" -> 11 [] OTHER -> 21

\* the relations a scenario table can declare for its column ref
ChainRelations ==
    {NoRelations} \cup {[c \in {"ref"} |-> <<p, "id">>] : p \in ChainTables}

InitChain ==
    /\ MainInit
    /\ \E na \in 0..MaxRows, nb \in 0..MaxRows, nc \in 0..MaxRows,
          ra \in ChainRelations, rl \in ChainRelations, rc \in ChainRelations :
          LET tables == <<ScenarioTable("a", na, ra), ScenarioTable("b", nb, rl),
                          ScenarioTable("c", nc, rc)>>
              ti == NextTable(ChainSchema, tables, 1)
          IN chain = [tables |-> tables,
                      inserted_rows |-> EnterTable(<<>>, tables, ti),
                      ti |-> ti, i |-> 0, rows |-> <<>>,
                      status |-> "running", ledger |-> <<>>, deletes |-> <<>>]
    /\ lock = Rest
    /\ sink = Rest
    /\ rowgen = Rest
    /\ listing = Rest
    /\ parser = Rest
    /\ creator = Rest
    /\ source = Rest
    /\ batch = Rest

\* parent_ids = inserted_rows.get(parent_table, []) for the column ref
ParentPool(stable, inserted_rows) ==
    IF "ref" \in DOMAIN stable.relations
    THEN Get(inserted_rows, stable.relations["ref"][1])
    ELSE <<>>

\* one turn of the row loop
ChainInsert ==
    /\ chain # Rest
    /\ chain.status = "running"
    /\ chain.ti <= Len(chain.tables)
    /\ LET stable == chain.tables[chain.ti]
           tname == stable.name
           table_info == ChainSchema[tname]
       IN \E row \in build_row_values(table_info, stable, chain.inserted_rows) :
            LET pk_val == FirstKey(tname) + chain.i
                done == chain.i + 1 = stable.count
                ti == IF done
                      THEN NextTable(ChainSchema, chain.tables, chain.ti + 1)
                      ELSE chain.ti
                appended == AppendKey(chain.inserted_rows, pk_val)
            IN chain' = [chain EXCEPT
                           !.rows = Append(@,
                              [table |-> tname, col_names |-> row.col_names,
                               values |-> row.values, key |-> pk_val,
                               pool |-> ParentPool(stable, chain.inserted_rows)]),
                           !.inserted_rows =
                               IF done THEN EnterTable(appended, chain.tables, ti)
                               ELSE appended,
                           !.ti = ti,
                           !.i = IF done THEN 0 ELSE chain.i + 1]
    /\ UNCHANGED <<mainvars, lock, sink, rowgen, listing, parser, creator,
                   source, batch>>

\* self.conn.commit(), then the entry as _save_run_log writes it
ChainCommit ==
    /\ chain # Rest
    /\ chain.status = "running"
    /\ chain.ti > Len(chain.tables)
    /\ chain' = [chain EXCEPT
                   !.status = "committed",
                   !.ledger = <<[inserted_rows |-> chain.inserted_rows]>>]
    /\ UNCHANGED <<mainvars, lock, sink, rowgen, listing, parser, creator,
                   source, batch>>

\* rollback_run on the entry: the DELETEs it executes, in order
ChainRollback ==
    /\ chain # Rest
    /\ chain.status = "committed"
    /\ chain' = [chain EXCEPT
                   !.status = "rolled_back",
                   !.deletes = DeleteStatements(ChainSchema,
                                                chain.ledger[1].inserted_rows)]
    /\ UNCHANGED <<mainvars, lock, sink, rowgen, listing, parser, creator,
                   source, batch>>

NextChain == ChainInsert \/ ChainCommit \/ ChainRollback

SpecChain == InitChain /\ [][NextChain]_vars

\* where a table is declared in the scenario
Declared(t) == CHOOSE j \in 1..Len(chain.tables) : chain.tables[j].name = t

\* the keys the first n INSERTs of the run returned for a table
KeysBefore(t, n) ==
    LET OnTable(r) == r.table = t
        sel == SelectSeq(SubSeq(chain.rows, 1, n), OnTable)
    IN [j \in 1..Len(sel) |-> sel[j].key]

(***************************************************************************)
(* C23: provisioning follows the declaration order of the scenario.  Of    *)
(* two INSERTs of a run the earlier one is on the table declared first (or *)
(* on the same table); when a row is built for a table with a relation,    *)
(* the parent-key pool is the list of all the keys the run inserted into   *)
(* the parent when the parent is declared before the table, and is empty   *)
(* when the parent is declared after it.                                   *)
(***************************************************************************)
C23_DeclarationOrder ==
    chain # Rest =>
        LET rows == chain.rows
        IN /\ \A x, y \in 1..Len(rows) :
                x < y => Declared(rows[x].table) <= Declared(rows[y].table)
           /\ \A y \in 1..Len(rows) :
                LET stable == chain.tables[Declared(rows[y].table)]
                IN "ref" \in DOMAIN stable.relations =>
                      LET parent == stable.relations["ref"][1]
                      IN /\ Declared(parent) < Declared(stable.name) =>
                               /\ rows[y].pool = KeysBefore(parent, y - 1)
                               /\ EligibleTable(ChainSchema,
                                                chain.tables[Declared(parent)]) =>
                                     Len(rows[y].pool)
                                        = chain.tables[Declared(parent)].count
                         /\ Declared(parent) > Declared(stable.name) =>
                               rows[y].pool = <<>>

C23_Witness ==
    /\ chain # Rest
    /\ chain.status = "committed"
    /\ "ref" \in DOMAIN chain.tables[1].relations
    /\ "ref" \in DOMAIN chain.tables[3].relations
    /\ chain.tables[1].relations["ref"][1] = "b"
    /\ chain.tables[3].relations["ref"][1] = "a"
    /\ Len(chain.rows) = 6
    /\ chain.rows[1].pool = <<>>
    /\ chain.rows[6].pool = <<1, 2>>

\* the relations of the scenario, as (child, parent) pairs
ChainDependencies ==
    {<<chain.tables[j].name, chain.tables[j].relations["ref"][1]>> :
        j \in {k \in 1..Len(chain.tables) :
                  "ref" \in DOMAIN chain.tables[k].relations}}

(***************************************************************************)
(* C26: when every relation of the scenario has its parent table declared  *)
(* before the child table, the rollback of the entry the run wrote         *)
(* executes every DELETE on a child table before every DELETE on its       *)
(* parent table, whether or not the two are next to each other in the      *)
(* scenario and however long the chain of relations is.                    *)
(***************************************************************************)
C26_ChildrenDeletedFirst ==
    (/\ chain # Rest
     /\ chain.status = "rolled_back"
     /\ \A dep \in ChainDependencies : Declared(dep[2]) < Declared(dep[1])) =>
        \A dep \in ChainDependencies :
            \A x, y \in 1..Len(chain.deletes) :
                (/\ chain.deletes[x].table = dep[1]
                 /\ chain.deletes[y].table = dep[2]) => x < y

\* c references a, two tables before it, and b references a
C26_Witness ==
    /\ chain # Rest
    /\ chain.status = "rolled_back"
    /\ ChainDependencies = {<<"b", "a">>, <<"c", "a">>}
    /\ Len(chain.deletes) = 3
    /\ chain.deletes[1].table = "c"
    /\ chain.deletes[3].table = "a"

(***************************************************************************)
(* C27: generated foreign keys are consistent within the run.  Every value *)
(* that is not null in a column with a relation is a key that an earlier   *)
(* INSERT of the same run returned for the relation's parent table, and    *)
(* the entry the run writes lists it for that table.                       *)
(***************************************************************************)
C27_ForeignKeysFromTheRun ==
    chain # Rest =>
        \A y \in 1..Len(chain.rows) :
            LET row == chain.rows[y]
                stable == chain.tables[Declared(row.table)]
            IN \A j \in 1..Len(row.col_names) :
                  (/\ row.col_names[j] \in DOMAIN stable.relations
                   /\ row.values[j].kind # "null") =>
                      LET parent == stable.relations[row.col_names[j]][1]
                          earlier == KeysBefore(parent, y - 1)
                      IN /\ row.values[j].kind = "key"
                         /\ \E k \in 1..Len(earlier) : earlier[k] = row.values[j].v
                         /\ chain.status # "running" =>
                               <<parent, row.values[j].v>>
                                  \in Rows(chain.ledger[1].inserted_rows)

C27_Witness ==
    /\ chain # Rest
    /\ chain.status = "committed"
    /\ \E y \in 1..Len(chain.rows) :
          /\ chain.rows[y].table = "c"
          /\ chain.rows[y].values[1] = [kind |-> "key", v |-> 12]

(***************************************************************************)
(* The DELETEs of one table of a ledger entry: the key list the entry      *)
(* records for a table of the schema, of any length up to MaxKeys, and the *)
(* statements rollback_run executes for it.                                *)
(***************************************************************************)
MaxKeys == 250

\* the key list: n distinct keys, here in descending order
RecordedKeys(n) == [j \in 1..n |-> n + 1 - j]

InitBatch ==
    /\ MainInit
    /\ \E n \in 0..MaxKeys, tname \in {"a", "ghost"} :
          batch = [tname |-> tname, ids |-> RecordedKeys(n), done |-> FALSE,
                   deletes |-> <<>>]
    /\ lock = Rest
    /\ sink = Rest
    /\ rowgen = Rest
    /\ listing = Rest
    /\ parser = Rest
    /\ creator = Rest
    /\ source = Rest
    /\ chain = Rest

\* one turn of the loop over the tables of the entry
BatchDelete ==
    /\ batch # Rest
    /\ ~batch.done
    /\ batch' = [batch EXCEPT
                   !.done = TRUE,
                   !.deletes = TableDeletes(ChainSchema, batch.tname, batch.ids)]
    /\ UNCHANGED <<mainvars, lock, sink, rowgen, listing, parser, creator,
                   source, chain>>

NextBatch == BatchDelete

SpecBatch == InitBatch /\ [][NextBatch]_vars

\* the keys of a list of statements, one after the other
RECURSIVE AllKeys(_)
AllKeys(statements) ==
    IF statements = <<>> THEN <<>>
    ELSE Head(statements).keys \o AllKeys(Tail(statements))

(***************************************************************************)
(* C25: for a table it processes, rollback issues one DELETE per batch of  *)
(* the recorded key list: every batch holds between 1 and 100 keys, the    *)
(* batches one after the other are the recorded list (every key in one     *)
(* batch, in the recorded order), no batch but the last is short, and an   *)
(* empty list gives no DELETE.                                             *)
(***************************************************************************)
C25_BatchesOfHundred ==
    (batch # Rest /\ batch.done /\ batch.tname \in DOMAIN ChainSchema) =>
        LET d == batch.deletes
        IN /\ \A c \in 1..Len(d) :
                /\ d[c].kind = "DELETE"
                /\ d[c].table = batch.tname
                /\ Len(d[c].keys) >= 1
                /\ Len(d[c].keys) <= 100
                /\ c < Len(d) => Len(d[c].keys) = 100
           /\ AllKeys(d) = batch.ids
           /\ batch.ids = <<>> => d = <<>>

C25_Witness ==
    /\ batch # Rest
    /\ batch.done
    /\ Len(batch.ids) = 250
    /\ Len(batch.deletes) = 3
    /\ Len(batch.deletes[3].keys) = 50

(***************************************************************************)
(* What the properties read: the statements logged, the ledger entry of    *)
(* the operation, and the rows the provisioning runs left in the databases.*)
(***************************************************************************)
\* keys returned by the INSERTs on a table, in the order they were executed
InsertedKeys(tname) ==
    LET OnTable(st) == st.kind = "INSERT" /\ st.table = tname
        sel == SelectSeq(stmts, OnTable)
    IN [j \in 1..Len(sel) |-> sel[j].keys[1]]

\* every table of every database
AllTables == UNION {{<<p, t>> : t \in DbTables(p)} : p \in Profiles}

\* the committed rows that were not there before the tool ran
OwnedRows ==
    UNION {{<<x[1], x[2], k>> : k \in db[x[1]][x[2]] \ InitRows(x[1], x[2])} :
           x \in AllTables}

\* the ledger entry the operation wrote or reads
Entry == work[obs.path[1]]

\* where a table stands among the keys of a ledger entry
Position(inserted_rows, tname) ==
    CHOOSE j \in 1..Len(inserted_rows) : inserted_rows[j].t = tname

(***************************************************************************)
(* C1: provisioning is all-or-nothing.  When an INSERT or the commit of    *)
(* generate_and_insert fails, the run ends with the exception raised, the  *)
(* connection closed, every table of every database holding the rows it    *)
(* held before the run, and the ledger files as they were.                 *)
(***************************************************************************)
C1_AllOrNothing ==
    (pc = "gen_done" /\ ~obs.committed) =>
        /\ obs.outcome = "raised"
        /\ db = obs.pre[1].db
        /\ work = obs.pre[1].work
        /\ conn = NoConn

C1_Witness ==
    /\ pc = "gen_done"
    /\ ~obs.committed
    /\ Len(stmts) >= 2

(***************************************************************************)
(* C2: every committed row is recorded.  Outside the step between the      *)
(* commit and the save of a running process, every row a provisioning run  *)
(* committed is listed by a ledger file of its profile.                    *)
(***************************************************************************)
C2_CommittedRowsRecorded ==
    pc # "gen_save" =>
        \A r \in OwnedRows :
            \E f \in DOMAIN work :
                /\ f[1] = r[1]
                /\ <<r[2], r[3]>> \in Rows(work[f].inserted_rows)

(***************************************************************************)
(* C3: a successful run inserts exactly N rows into every scenario table   *)
(* with count N >= 1 that the schema holds with a primary key, and the     *)
(* ledger entry lists for it the N keys the INSERTs returned, in the order *)
(* of the INSERTs.                                                         *)
(***************************************************************************)
C3_ExactlyCountRows ==
    (pc = "gen_done" /\ obs.outcome = "returned") =>
        \A j \in 1..Len(GenTables) :
            LET stable == GenTables[j]
                tname == stable.name
                schema == state.schema[1]
            IN (/\ stable.count >= 1
                /\ tname \in DOMAIN schema
                /\ schema[tname].primary_key # None) =>
                   /\ Len(InsertedKeys(tname)) = stable.count
                   /\ Cardinality(db[state.db_config][tname]
                         \ obs.pre[1].db[state.db_config][tname]) = stable.count
                   /\ tname \in {Entry.inserted_rows[k].t :
                                    k \in 1..Len(Entry.inserted_rows)}
                   /\ Get(Entry.inserted_rows, tname) = InsertedKeys(tname)

C3_Witness ==
    /\ pc = "gen_done"
    /\ obs.outcome = "returned"
    /\ Len(Get(Entry.inserted_rows, "users")) = 2
    /\ Len(Get(Entry.inserted_rows, "orders")) = 1

(***************************************************************************)
(* C4: a scenario table with count <= 0, or absent from the schema, or in  *)
(* the schema without a primary key, gets no INSERT, keeps its rows, is    *)
(* never the table the loop stands at, and is no key of inserted_rows in   *)
(* the run or in the ledger entry written.                                 *)
(***************************************************************************)
C4_SkippedTablesUntouched ==
    pc \in {"gen_loop", "gen_save", "gen_done"} =>
        \A j \in 1..Len(GenTables) :
            LET stable == GenTables[j]
                tname == stable.name
                schema == state.schema[1]
            IN (\/ stable.count <= 0
                \/ tname \notin DOMAIN schema
                \/ schema[tname].primary_key = None) =>
                   /\ \A k \in 1..Len(stmts) : stmts[k].table # tname
                   /\ \A x \in conn.ins : x[1] # tname
                   /\ gen.ti # j
                   /\ \A k \in 1..Len(gen.inserted_rows) :
                         gen.inserted_rows[k].t # tname
                   /\ tname \in DbTables(state.db_config) =>
                         db[state.db_config][tname]
                            = obs.pre[1].db[state.db_config][tname]
                   /\ obs.outcome = "returned" =>
                         \A k \in 1..Len(Entry.inserted_rows) :
                            Entry.inserted_rows[k].t # tname

C4_Witness ==
    /\ pc = "gen_done"
    /\ obs.outcome = "returned"
    /\ state.schema[1] = SchemaFile("p1")
    /\ \E j \in 1..Len(GenTables) : GenTables[j].count <= 0
    /\ \E j \in 1..Len(GenTables) : GenTables[j].name \notin DOMAIN state.schema[1]
    /\ \E j \in 1..Len(GenTables) :
          /\ GenTables[j].name \in DOMAIN state.schema[1]
          /\ state.schema[1][GenTables[j].name].primary_key = None

(***************************************************************************)
(* C5: run identifiers are unique and ledger entries immutable.  When a    *)
(* run has saved its ledger entry, every ledger file that was there before *)
(* the run is still there with the content it had, and carries another     *)
(* run identifier.                                                         *)
(***************************************************************************)
C5_LedgerEntriesKept ==
    (pc = "gen_done" /\ obs.outcome = "returned") =>
        \A f \in DOMAIN obs.pre[1].work :
            /\ f \in DOMAIN work
            /\ work[f] = obs.pre[1].work[f]
            /\ work[f].run_id # gen.run_id

(***************************************************************************)
(* C6: rollback deletes only what the ledger entry records.  Every DELETE  *)
(* of rollback_run names a table that is a key of the entry and is in the  *)
(* current schema model with a primary key, filters on that key, and lists *)
(* only keys of the entry's list for the table; the rows a rollback takes  *)
(* out of the database are rows of such tables with such keys.             *)
(***************************************************************************)
C6_DeletesOnlyRecorded ==
    (pc \in {"rb_loop", "rb_done"} /\ rb.file_path # <<>>) =>
        LET schema == state.schema[1]
            recorded == Rows(Entry.inserted_rows)
        IN /\ \A k \in 1..Len(stmts) :
                /\ stmts[k].kind = "DELETE"
                /\ stmts[k].table \in DOMAIN schema
                /\ schema[stmts[k].table].primary_key # None
                /\ stmts[k].pk = schema[stmts[k].table].primary_key
                /\ \A n \in 1..Len(stmts[k].keys) :
                      <<stmts[k].table, stmts[k].keys[n]>> \in recorded
           /\ \A x \in AllTables :
                \A key \in obs.pre[1].db[x[1]][x[2]] \ db[x[1]][x[2]] :
                    /\ x[1] = state.db_config
                    /\ x[2] \in DOMAIN schema
                    /\ <<x[2], key>> \in recorded

C6_Witness ==
    /\ pc = "rb_done"
    /\ obs.committed
    /\ Len(stmts) >= 2
    /\ db # obs.pre[1].db

(***************************************************************************)
(* C7: rollback is all-or-nothing.  When a DELETE or the commit of         *)
(* rollback_run fails, the databases hold the rows they held before the    *)
(* rollback and rollback_run returns its failure message.                  *)
(***************************************************************************)
C7_RollbackAllOrNothing ==
    (pc = "rb_done" /\ rb.file_path # <<>> /\ ~obs.committed) =>
        /\ db = obs.pre[1].db
        /\ obs.outcome = "returned"
        /\ obs.last_message = "rollback_failed"

(***************************************************************************)
(* C8: round trip.  When the rollback of a ledger entry has succeeded, no  *)
(* row the entry's run inserted is left in the run's database, and the     *)
(* rollback took no other row out of any database: the tables the run      *)
(* touched hold the rows they held before the run.                         *)
(***************************************************************************)
C8_RoundTrip ==
    (pc = "rb_done" /\ obs.committed) =>
        /\ \A x \in Rows(Entry.inserted_rows) :
              x[2] \notin db[obs.path[1][1]][x[1]]
        /\ \A x \in AllTables :
              \A key \in obs.pre[1].db[x[1]][x[2]] \ db[x[1]][x[2]] :
                  /\ x[1] = obs.path[1][1]
                  /\ <<x[2], key>> \in Rows(Entry.inserted_rows)

(***************************************************************************)
(* C9: rollback is idempotent.  A rollback of a ledger entry that was      *)
(* rolled back with success before finds no row to delete.                 *)
(***************************************************************************)
C9_SecondRollbackDeletesNothing ==
    (pc = "rb_loop" /\ rb.file_path[1] \in rolled) => conn.del = {}

(***************************************************************************)
(* C10: rollback goes through the tables in the reverse of the order the   *)
(* ledger entry records them in, which is the order provisioning inserted  *)
(* into them: of two DELETEs, the earlier one is on the table recorded     *)
(* later (or on the same table), and the entry a run writes lists the      *)
(* tables in the order of their first INSERT.                              *)
(***************************************************************************)
C10_ReverseRecordedOrder ==
    /\ (pc \in {"rb_loop", "rb_done"} /\ rb.file_path # <<>>) =>
          \A a, b \in 1..Len(stmts) :
              a < b => Position(Entry.inserted_rows, stmts[a].table)
                          >= Position(Entry.inserted_rows, stmts[b].table)
    /\ (pc = "gen_done" /\ obs.outcome = "returned") =>
          \A a, b \in 1..Len(stmts) :
              a < b => Position(Entry.inserted_rows, stmts[a].table)
                          <= Position(Entry.inserted_rows, stmts[b].table)

C10_Witness ==
    /\ pc = "rb_done"
    /\ obs.committed
    /\ Len(stmts) >= 2
    /\ stmts[1].table = "orders"
    /\ stmts[2].table = "users"

(***************************************************************************)
(* C13: one transaction per run.  The committed rows of the databases      *)
(* change only in the step that is the first commit of the provisioning    *)
(* or rollback run in progress, and that step is taken when every INSERT   *)
(* (every DELETE) of the run has been executed.                            *)
(***************************************************************************)
C13_OneTransactionPerRun ==
    [][db' # db =>
         /\ ~obs.committed
         /\ obs'.committed
         /\ db' = DbCommit(db, conn)
         /\ obs.op = "generate" =>
               /\ pc = "gen_loop"
               /\ Len(stmts) = Len(PlanRows(state.schema[1], GenTables))
         /\ obs.op = "rollback" =>
               /\ pc = "rb_loop"
               /\ Len(stmts) = Len(DeleteStatements(state.schema[1],
                                                    Entry.inserted_rows))]_vars

C13_Witness ==
    /\ pc = "gen_save"
    /\ obs.committed
    /\ Len(stmts) = 3
    /\ db # obs.pre[1].db

(***************************************************************************)
(* C14: no connection is leaked.  When a provisioning or rollback          *)
(* operation has ended, by a return or by an exception, and at the menu,   *)
(* no database connection is open.                                         *)
(***************************************************************************)
C14_NoConnectionLeak ==
    pc \in {"menu", "gen_done", "rb_done"} => ~conn.open

(***************************************************************************)
(* C15: a failure ends only the operation.  A provisioning or rollback     *)
(* operation that has ended has left its outcome message in the session,   *)
(* and no exception of it is on its way out of the menu loop.              *)
(***************************************************************************)
C15_FailureEndsOnlyTheOperation ==
    pc \in {"gen_done", "rb_done"} =>
        /\ obs.last_message # ""
        /\ ~Uncaught

(***************************************************************************)
(* C17: rollback reads the ledger and never changes it.  From the start of *)
(* a rollback operation to its end, with success or with failure, the      *)
(* files under work/ and their contents are the ones list_runs saw before. *)
(***************************************************************************)
C17_RollbackKeepsLedger ==
    obs.op = "rollback" =>
        /\ work = obs.pre[1].work
        /\ list_runs(work) = list_runs(obs.pre[1].work)

C17_Witness ==
    /\ pc = "rb_done"
    /\ obs.op = "rollback"
    /\ obs.committed
    /\ obs.path[1] \in rolled
    /\ obs.path[1] \in list_runs(work)

(***************************************************************************)
(* C28: a rollback chosen from the run list works on the database of the   *)
(* profile the chosen ledger entry records and with that profile's schema, *)
(* whatever profile the session has selected: its connection and schema    *)
(* model are that profile's, and the tables of every other profile's       *)
(* database hold the rows they held before the rollback.                   *)
(***************************************************************************)
C28_RollbackOnEntryProfile ==
    (obs.op = "rollback" /\ rb.file_path # <<>>) =>
        /\ pc = "rb_loop" =>
              /\ conn.profile = Entry.profile
              /\ state.schema = <<SchemaFile(Entry.profile)>>
        /\ \A x \in AllTables :
              x[1] # Entry.profile =>
                  db[x[1]][x[2]] = obs.pre[1].db[x[1]][x[2]]

(***************************************************************************)
(* C29: session consistency.  From the start of a provisioning run to its  *)
(* end, the schema model, the scenario model and the connection config of  *)
(* the session are those of the selected profile and scenario, the         *)
(* connection is to the selected profile's database, and the ledger entry  *)
(* written names the selected profile and scenario.                        *)
(***************************************************************************)
C29_SessionConsistency ==
    pc \in {"gen_loop", "gen_save", "gen_done"} =>
        /\ state.current_profile # None
        /\ state.current_scenario # <<>>
        /\ state.current_scenario[1] \in ScenarioPaths(state.current_profile)
        /\ state.schema = <<SchemaFile(state.current_profile)>>
        /\ state.scenario = <<ScenarioFile(state.current_scenario[1])>>
        /\ state.db_config = load_connection_config(state.current_profile)
        /\ conn.open => conn.profile = state.current_profile
        /\ obs.outcome = "returned" =>
              /\ Entry.profile = state.current_profile
              /\ Entry.scenario = basename(state.current_scenario[1])

====
